---- MODULE Spec2Model ----
(***************************************************************************)
(* Model of exporter/exporter.go of redis_exporter: Exporter.Collect,      *)
(* Exporter.scrapeRedisHost and Exporter.extractConfigMetrics.             *)
(*                                                                         *)
(* A Go string is modelled as a sequence of symbols.  A symbol is a single *)
(* character ("0".."9", "-", "+", " ") or an opaque word that stands for a *)
(* run of letters (a word holds no digit, sign or space and is none of the *)
(* float literals inf / nan).  S("databases") is the one-word string.      *)
(***************************************************************************)
EXTENDS Integers, Sequences, FiniteSets, TLC

\* ------------------------------------------------------------------ bounds

\* number of concurrent Collect calls on the one Exporter
NumCollects == 2

\* at most this many locally handled step failures are injected per scrape
MaxStepFailures == 1

\* ----------------------------------------------------------------- strings

S(word) == <<word>>

Digits == {"0", "1", "2", "3", "4", "5", "6", "7", "8", "9"}

DigitVal(d) ==
  CASE d = "0" -> 0 [] d = "1" -> 1 [] d = "2" -> 2 [] d = "3" -> 3
    [] d = "4" -> 4 [] d = "5" -> 5 [] d = "6" -> 6 [] d = "7" -> 7
    [] d = "8" -> 8 [] d = "9" -> 9

RECURSIVE DigitsVal(_, _)
DigitsVal(s, acc) ==
  IF s = <<>> THEN acc ELSE DigitsVal(Tail(s), acc * 10 + DigitVal(Head(s)))

IsDigits(s) == Len(s) > 0 /\ \A i \in 1..Len(s) : s[i] \in Digits

\* strconv.Atoi: optional sign, then at least one digit, nothing else.
\* (the strings of the model are far shorter than the 64-bit range)
Unsigned(s) == IF s # <<>> /\ Head(s) \in {"-", "+"} THEN Tail(s) ELSE s

AtoiOk(s) == IsDigits(Unsigned(s))

Atoi(s) ==
  IF s # <<>> /\ Head(s) = "-" THEN 0 - DigitsVal(Unsigned(s), 0)
  ELSE DigitsVal(Unsigned(s), 0)

\* strconv.ParseFloat(s, 64) on the symbols of the model: a signed run of
\* digits (no ".", exponent, inf or nan can be written with them).
ParseFloatOk(s) == AtoiOk(s)

ParseFloat(s) == Atoi(s)

\* strings.Split(s, " "): always at least one token, "" gives <<"">>.
RECURSIVE SplitFrom(_, _, _)
SplitFrom(s, cur, acc) ==
  IF s = <<>> THEN Append(acc, cur)
  ELSE IF Head(s) = " " THEN SplitFrom(Tail(s), <<>>, Append(acc, cur))
  ELSE SplitFrom(Tail(s), Append(cur, Head(s)), acc)

\* the value taken as one token
SplitWhole(s) == <<s>>

\* strings.Split(s, " ")
Split(s) == SplitFrom(s, <<>>, <<>>)

\* strings.ReplaceAll(strKey, "-", "_") for the three keys it is applied to
ReplaceAllDash(strKey) ==
  IF strKey = S("io-threads") THEN S("io_threads") ELSE strKey

\* ------------------------------------------------------------ observations

Nil == "<nil>"

Obs(name, value, labels) == [name |-> name, value |-> value, labels |-> labels]

\* a reply element: a bulk string, or anything redis.String rejects
Bulk(s) == [kind |-> "bulk", str |-> s]

NotString == [kind |-> "int", str |-> <<>>]

RedisStringOk(reply) == reply.kind = "bulk"

\* ------------------------------------------------- extractConfigMetrics

RedactedKeys ==
  {S("masterauth"), S("requirepass"), S("tls-key-file-pass"),
   S("tls-client-key-file-pass")}

GaugeKeys == {S("io-threads"), S("maxclients"), S("maxmemory")}

\* the config_<key> metric name of lines 641-644
ConfigGaugeName(strKey) ==
  CASE ReplaceAllDash(strKey) = S("io_threads") -> "config_io_threads"
    [] ReplaceAllDash(strKey) = S("maxclients") -> "config_maxclients"
    [] ReplaceAllDash(strKey) = S("maxmemory") -> "config_maxmemory"

ConfigResult(dbCount, err, out, panicked) ==
  [dbCount |-> dbCount, err |-> err, out |-> out, panicked |-> panicked]

\* lines 650-661: the loop over splitVal, i counted from 0 as in the code;
\* an index past the end of the slice is a run-time panic.
RECURSIVE BufferLimitLoop(_, _, _)
BufferLimitLoop(splitVal, i, out) ==
  IF i >= Len(splitVal) THEN [out |-> out, panicked |-> FALSE]
  ELSE
    LET class == splitVal[i + 1] IN
    IF i + 1 >= Len(splitVal) THEN [out |-> out, panicked |-> TRUE]
    ELSE
      LET o1 == IF ParseFloatOk(splitVal[i + 2])
                THEN Append(out, Obs("config_client_output_buffer_limit_bytes",
                                     ParseFloat(splitVal[i + 2]), <<class, S("hard")>>))
                ELSE out
      IN
      IF i + 2 >= Len(splitVal) THEN [out |-> o1, panicked |-> TRUE]
      ELSE
        LET o2 == IF ParseFloatOk(splitVal[i + 3])
                  THEN Append(o1, Obs("config_client_output_buffer_limit_bytes",
                                      ParseFloat(splitVal[i + 3]), <<class, S("soft")>>))
                  ELSE o1
        IN
        IF i + 3 >= Len(splitVal) THEN [out |-> o2, panicked |-> TRUE]
        ELSE
          LET o3 == IF ParseFloatOk(splitVal[i + 4])
                    THEN Append(o2, Obs("config_client_output_buffer_limit_overcome_seconds",
                                        ParseFloat(splitVal[i + 4]), <<class, S("soft")>>))
                    ELSE o2
          IN BufferLimitLoop(splitVal, i + 4, o3)

\* config_key_value and config_value for every key, whatever RedactConfigMetrics
ConfigKeyValueObsUnredacted(opts, strKey, strVal) ==
  IF opts.InclConfigMetrics
  THEN <<Obs("config_key_value", 1, <<strKey, strVal>>)>>
       \o (IF ParseFloatOk(strVal)
           THEN <<Obs("config_value", ParseFloat(strVal), <<strKey>>)>>
           ELSE <<>>)
  ELSE <<>>

\* lines 622-634
ConfigKeyValueObs(opts, strKey, strVal) ==
  IF opts.InclConfigMetrics /\ (strKey \notin RedactedKeys \/ ~opts.RedactConfigMetrics)
  THEN <<Obs("config_key_value", 1, <<strKey, strVal>>)>>
       \o (IF ParseFloatOk(strVal)
           THEN <<Obs("config_value", ParseFloat(strVal), <<strKey>>)>>
           ELSE <<>>)
  ELSE <<>>

\* lines 636-645
ConfigGaugeObs(strKey, strVal) ==
  IF strKey \in GaugeKeys /\ ParseFloatOk(strVal)
  THEN <<Obs(ConfigGaugeName(strKey), ParseFloat(strVal), <<>>)>>
  ELSE <<>>

\* lines 603-664: the loop over the pairs, pos counted from 0 as in the code
RECURSIVE ConfigLoop(_, _, _, _, _)
ConfigLoop(opts, config, pos, dbCount, out) ==
  IF pos >= Len(config) \div 2 THEN ConfigResult(dbCount, Nil, out, FALSE)
  ELSE
    LET k == config[pos * 2 + 1]
        v == config[pos * 2 + 2]
    IN
    IF ~RedisStringOk(k) \/ ~RedisStringOk(v)
    THEN ConfigLoop(opts, config, pos + 1, dbCount, out)
    ELSE
      LET strKey == k.str
          strVal == v.str
      IN
      IF strKey = S("databases") /\ ~AtoiOk(strVal)
      THEN ConfigResult(0, "invalid config value for key databases", out, FALSE)
      ELSE
        LET db == IF strKey = S("databases") THEN Atoi(strVal) ELSE dbCount
            o1 == out \o ConfigKeyValueObs(opts, strKey, strVal)
                      \o ConfigGaugeObs(strKey, strVal)
            \* line 642 rewrites strKey, so "io-threads" no longer equals
            \* anything below; the other keys are unchanged by it
            lim == IF strKey = S("client-output-buffer-limit")
                   THEN BufferLimitLoop(Split(strVal), 0, o1)
                   ELSE [out |-> o1, panicked |-> FALSE]
        IN
        IF lim.panicked THEN ConfigResult(db, Nil, lim.out, TRUE)
        ELSE ConfigLoop(opts, config, pos + 1, db, lim.out)

extractConfigMetrics(opts, config) ==
  IF Len(config) % 2 # 0 THEN ConfigResult(0, "invalid config", <<>>, FALSE)
  ELSE ConfigLoop(opts, config, 0, 0, <<>>)

\* ------------------------------------------------------- inputs of a run

Procs == 1..NumCollects

None == 0

\* Options as NewRedisExporter leaves them (an empty ConfigCommandName has
\* become "CONFIG", lines 399-401); LuaScript is given by its file names.
MkOptions(ping, name, cmd, incl, redact, noLatency, skip, clients, tile38, modules, lua, sys, max) ==
  [PingOnConnect |-> ping, SetClientName |-> name,
   ConfigCommandName |-> cmd, InclConfigMetrics |-> incl,
   RedactConfigMetrics |-> redact,
   ExcludeLatencyHistogramMetrics |-> noLatency,
   SkipCheckKeysForRoleMaster |-> skip, ExportClientList |-> clients,
   IsTile38 |-> tile38, InclModulesMetrics |-> modules, LuaScript |-> lua,
   InclSystemMetrics |-> sys, MaxDistinctKeyGroups |-> max]

OptionSets ==
  {MkOptions(TRUE, TRUE, "CONFIG", TRUE, TRUE, FALSE, FALSE, TRUE, TRUE, TRUE,
             {"a.lua", "b.lua"}, TRUE, 2),
   MkOptions(FALSE, FALSE, "-", FALSE, FALSE, TRUE, TRUE, FALSE, FALSE, FALSE, {}, FALSE, 0),
   MkOptions(FALSE, FALSE, "CONFIG", TRUE, FALSE, TRUE, TRUE, FALSE, FALSE, FALSE,
             {"a.lua"}, TRUE, 1),
   MkOptions(TRUE, FALSE, "-", FALSE, FALSE, FALSE, FALSE, FALSE, TRUE, FALSE,
             {"a.lua", "b.lua"}, FALSE, 3)}

Addrs == {"", "redis://localhost:6379"}

\* replies of "<ConfigCommandName> GET *" that redis.Values accepts
ConfigReplies ==
  {<<>>,
   <<Bulk(S("databases")), Bulk(<<"3", "2">>)>>,
   <<Bulk(S("databases")), Bulk(<<"0">>)>>,
   <<Bulk(S("databases")), Bulk(<<"-", "1">>)>>,
   <<Bulk(S("databases")), Bulk(S("abc"))>>,
   <<Bulk(S("databases"))>>,
   <<Bulk(S("client-output-buffer-limit")), Bulk(<<"normal", " ", "0">>)>>,
   <<Bulk(S("client-output-buffer-limit")), Bulk(S("normal")),
     Bulk(S("databases")), Bulk(S("abc"))>>}

\* status reports, as sequences of lines; <<>> is the empty string
InfoTexts ==
  {<<"# Server", "role:master", "cluster_enabled:0">>,
   <<"# Replication", "role:slave">>,
   <<"role:master", "cluster_enabled:1">>,
   <<"# Sentinel">>}

\* strings.Contains(infoAll, line)
Contains(text, line) == \E i \in 1..Len(text) : text[i] = line

InstanceRoleSlave == "slave"

\* the role extractInfoMetrics returns: the value of the report's role field
extractInfoMetricsRole(text) ==
  IF Contains(text, "role:slave") THEN "slave"
  ELSE IF Contains(text, "role:master") THEN "master"
  ELSE ""

\* ---------------------------------------------------------- metric tables

\* A Go map literal is given by its (key, value) entries.

\* lines 131-333: the literal of metricMapGauges
GaugeEntries ==
  {<<"uptime_in_seconds", "uptime_in_seconds">>,
   <<"process_id", "process_id">>,
   <<"io_threads_active", "io_threads_active">>,
   <<"connected_clients", "connected_clients">>,
   <<"blocked_clients", "blocked_clients">>,
   <<"maxclients", "max_clients">>,
   <<"tracking_clients", "tracking_clients">>,
   <<"clients_in_timeout_table", "clients_in_timeout_table">>,
   <<"pubsub_clients", "pubsub_clients">>,
   <<"watching_clients", "watching_clients">>,
   <<"total_watched_keys", "total_watched_keys">>,
   <<"total_blocking_keys", "total_blocking_keys">>,
   <<"total_blocking_keys_on_nokey", "total_blocking_keys_on_nokey">>,
   <<"client_longest_output_list", "client_longest_output_list">>,
   <<"client_biggest_input_buf", "client_biggest_input_buf">>,
   <<"client_recent_max_output_buffer", "client_recent_max_output_buffer_bytes">>,
   <<"client_recent_max_input_buffer", "client_recent_max_input_buffer_bytes">>,
   <<"allocator_active", "allocator_active_bytes">>,
   <<"allocator_allocated", "allocator_allocated_bytes">>,
   <<"allocator_resident", "allocator_resident_bytes">>,
   <<"allocator_frag_ratio", "allocator_frag_ratio">>,
   <<"allocator_frag_bytes", "allocator_frag_bytes">>,
   <<"allocator_muzzy", "allocator_muzzy_bytes">>,
   <<"allocator_rss_ratio", "allocator_rss_ratio">>,
   <<"allocator_rss_bytes", "allocator_rss_bytes">>,
   <<"used_memory", "memory_used_bytes">>,
   <<"used_memory_rss", "memory_used_rss_bytes">>,
   <<"used_memory_peak", "memory_used_peak_bytes">>,
   <<"used_memory_lua", "memory_used_lua_bytes">>,
   <<"used_memory_vm_eval", "memory_used_vm_eval_bytes">>,
   <<"used_memory_scripts_eval", "memory_used_scripts_eval_bytes">>,
   <<"used_memory_overhead", "memory_used_overhead_bytes">>,
   <<"used_memory_startup", "memory_used_startup_bytes">>,
   <<"used_memory_dataset", "memory_used_dataset_bytes">>,
   <<"number_of_cached_scripts", "number_of_cached_scripts">>,
   <<"number_of_functions", "number_of_functions">>,
   <<"number_of_libraries", "number_of_libraries">>,
   <<"used_memory_vm_functions", "memory_used_vm_functions_bytes">>,
   <<"used_memory_scripts", "memory_used_scripts_bytes">>,
   <<"used_memory_functions", "memory_used_functions_bytes">>,
   <<"used_memory_vm_total", "memory_used_vm_total">>,
   <<"maxmemory", "memory_max_bytes">>,
   <<"maxmemory_reservation", "memory_max_reservation_bytes">>,
   <<"maxmemory_desired_reservation", "memory_max_reservation_desired_bytes">>,
   <<"maxfragmentationmemory_reservation", "memory_max_fragmentation_reservation_bytes">>,
   <<"maxfragmentationmemory_desired_reservation", "memory_max_fragmentation_reservation_desired_bytes">>,
   <<"mem_fragmentation_ratio", "mem_fragmentation_ratio">>,
   <<"mem_fragmentation_bytes", "mem_fragmentation_bytes">>,
   <<"mem_clients_slaves", "mem_clients_slaves">>,
   <<"mem_clients_normal", "mem_clients_normal">>,
   <<"mem_cluster_links", "mem_cluster_links_bytes">>,
   <<"mem_aof_buffer", "mem_aof_buffer_bytes">>,
   <<"mem_replication_backlog", "mem_replication_backlog_bytes">>,
   <<"expired_stale_perc", "expired_stale_percentage">>,
   <<"mem_not_counted_for_evict", "mem_not_counted_for_eviction_bytes">>,
   <<"mem_total_replication_buffers", "mem_total_replication_buffers_bytes">>,
   <<"mem_overhead_db_hashtable_rehashing", "mem_overhead_db_hashtable_rehashing_bytes">>,
   <<"lazyfree_pending_objects", "lazyfree_pending_objects">>,
   <<"lazyfreed_objects", "lazyfreed_objects">>,
   <<"active_defrag_running", "active_defrag_running">>,
   <<"migrate_cached_sockets", "migrate_cached_sockets_total">>,
   <<"active_defrag_hits", "defrag_hits">>,
   <<"active_defrag_misses", "defrag_misses">>,
   <<"active_defrag_key_hits", "defrag_key_hits">>,
   <<"active_defrag_key_misses", "defrag_key_misses">>,
   <<"expired_time_cap_reached_count", "expired_time_cap_reached_total">>,
   <<"loading", "loading_dump_file">>,
   <<"async_loading", "async_loading">>,
   <<"rdb_changes_since_last_save", "rdb_changes_since_last_save">>,
   <<"rdb_bgsave_in_progress", "rdb_bgsave_in_progress">>,
   <<"rdb_last_save_time", "rdb_last_save_timestamp_seconds">>,
   <<"rdb_last_bgsave_status", "rdb_last_bgsave_status">>,
   <<"rdb_last_bgsave_time_sec", "rdb_last_bgsave_duration_sec">>,
   <<"rdb_current_bgsave_time_sec", "rdb_current_bgsave_duration_sec">>,
   <<"rdb_saves", "rdb_saves_total">>,
   <<"rdb_last_cow_size", "rdb_last_cow_size_bytes">>,
   <<"rdb_last_load_keys_expired", "rdb_last_load_expired_keys">>,
   <<"rdb_last_load_keys_loaded", "rdb_last_load_loaded_keys">>,
   <<"aof_enabled", "aof_enabled">>,
   <<"aof_rewrite_in_progress", "aof_rewrite_in_progress">>,
   <<"aof_rewrite_scheduled", "aof_rewrite_scheduled">>,
   <<"aof_last_rewrite_time_sec", "aof_last_rewrite_duration_sec">>,
   <<"aof_current_rewrite_time_sec", "aof_current_rewrite_duration_sec">>,
   <<"aof_last_cow_size", "aof_last_cow_size_bytes">>,
   <<"aof_current_size", "aof_current_size_bytes">>,
   <<"aof_base_size", "aof_base_size_bytes">>,
   <<"aof_pending_rewrite", "aof_pending_rewrite">>,
   <<"aof_buffer_length", "aof_buffer_length">>,
   <<"aof_rewrite_buffer_length", "aof_rewrite_buffer_length">>,
   <<"aof_pending_bio_fsync", "aof_pending_bio_fsync">>,
   <<"aof_delayed_fsync", "aof_delayed_fsync">>,
   <<"aof_last_bgrewrite_status", "aof_last_bgrewrite_status">>,
   <<"aof_last_write_status", "aof_last_write_status">>,
   <<"module_fork_in_progress", "module_fork_in_progress">>,
   <<"module_fork_last_cow_size", "module_fork_last_cow_size">>,
   <<"current_eviction_exceeded_time", "current_eviction_exceeded_time_ms">>,
   <<"pubsub_channels", "pubsub_channels">>,
   <<"pubsub_patterns", "pubsub_patterns">>,
   <<"pubsubshard_channels", "pubsubshard_channels">>,
   <<"latest_fork_usec", "latest_fork_usec">>,
   <<"tracking_total_keys", "tracking_total_keys">>,
   <<"tracking_total_items", "tracking_total_items">>,
   <<"tracking_total_prefixes", "tracking_total_prefixes">>,
   <<"connected_slaves", "connected_slaves">>,
   <<"repl_backlog_size", "replication_backlog_bytes">>,
   <<"repl_backlog_active", "repl_backlog_is_active">>,
   <<"repl_backlog_first_byte_offset", "repl_backlog_first_byte_offset">>,
   <<"repl_backlog_histlen", "repl_backlog_history_bytes">>,
   <<"master_repl_offset", "master_repl_offset">>,
   <<"second_repl_offset", "second_repl_offset">>,
   <<"slave_expires_tracked_keys", "slave_expires_tracked_keys">>,
   <<"slave_priority", "slave_priority">>,
   <<"sync_full", "replica_resyncs_full">>,
   <<"sync_partial_ok", "replica_partial_resync_accepted">>,
   <<"sync_partial_err", "replica_partial_resync_denied">>,
   <<"cluster_stats_messages_sent", "cluster_messages_sent_total">>,
   <<"cluster_stats_messages_received", "cluster_messages_received_total">>,
   <<"tile38_aof_size", "tile38_aof_size_bytes">>,
   <<"tile38_avg_point_size", "tile38_avg_item_size_bytes">>,
   <<"tile38_sys_cpus", "tile38_cpus_total">>,
   <<"tile38_heap_released_bytes", "tile38_heap_released_bytes">>,
   <<"tile38_heap_alloc_bytes", "tile38_heap_size_bytes">>,
   <<"tile38_http_transport", "tile38_http_transport">>,
   <<"tile38_in_memory_size", "tile38_in_memory_size_bytes">>,
   <<"tile38_max_heap_size", "tile38_max_heap_size_bytes">>,
   <<"tile38_alloc_bytes", "tile38_mem_alloc_bytes">>,
   <<"tile38_num_collections", "tile38_num_collections_total">>,
   <<"tile38_num_hooks", "tile38_num_hooks_total">>,
   <<"tile38_num_objects", "tile38_num_objects_total">>,
   <<"tile38_num_points", "tile38_num_points_total">>,
   <<"tile38_pointer_size", "tile38_pointer_size_bytes">>,
   <<"tile38_read_only", "tile38_read_only">>,
   <<"tile38_go_threads", "tile38_threads_total">>,
   <<"tile38_go_goroutines", "tile38_go_goroutines_total">>,
   <<"tile38_last_gc_time_seconds", "tile38_last_gc_time_seconds">>,
   <<"tile38_next_gc_bytes", "tile38_next_gc_bytes">>,
   <<"server_threads", "server_threads_total">>,
   <<"long_lock_waits", "long_lock_waits_total">>,
   <<"current_client_thread", "current_client_thread">>,
   <<"search_number_of_indexes", "search_number_of_indexes">>,
   <<"search_used_memory_indexes", "search_used_memory_indexes_bytes">>,
   <<"search_global_idle", "search_global_idle">>,
   <<"search_global_total", "search_global_total">>,
   <<"search_bytes_collected", "search_collected_bytes">>,
   <<"search_dialect_1", "search_dialect_1">>,
   <<"search_dialect_2", "search_dialect_2">>,
   <<"search_dialect_3", "search_dialect_3">>,
   <<"search_dialect_4", "search_dialect_4">>,
   <<"search_number_of_active_indexes", "search_number_of_active_indexes">>,
   <<"search_number_of_active_indexes_running_queries", "search_number_of_active_indexes_running_queries">>,
   <<"search_number_of_active_indexes_indexing", "search_number_of_active_indexes_indexing">>,
   <<"search_total_active_write_threads", "search_total_active_write_threads">>,
   <<"search_smallest_memory_index", "search_smallest_memory_index_bytes">>,
   <<"search_largest_memory_index", "search_largest_memory_index_bytes">>,
   <<"search_used_memory_vector_index", "search_used_memory_vector_index_bytes">>,
   <<"search_global_idle_user", "search_global_idle_user">>,
   <<"search_global_idle_internal", "search_global_idle_internal">>,
   <<"search_global_total_user", "search_global_total_user">>,
   <<"search_global_total_internal", "search_global_total_internal">>,
   <<"search_gc_bytes_collected", "search_gc_collected_bytes">>,
   <<"search_gc_total_docs_not_collected", "search_gc_total_docs_not_collected">>,
   <<"search_gc_marked_deleted_vectors", "search_gc_marked_deleted_vectors">>,
   <<"search_errors_indexing_failures", "search_errors_indexing_failures">>}

\* lines 335-396: the literal of metricMapCounters
CounterEntries ==
  {<<"total_connections_received", "connections_received_total">>,
   <<"total_commands_processed", "commands_processed_total">>,
   <<"rejected_connections", "rejected_connections_total">>,
   <<"total_net_input_bytes", "net_input_bytes_total">>,
   <<"total_net_output_bytes", "net_output_bytes_total">>,
   <<"total_net_repl_input_bytes", "net_repl_input_bytes_total">>,
   <<"total_net_repl_output_bytes", "net_repl_output_bytes_total">>,
   <<"expired_subkeys", "expired_subkeys_total">>,
   <<"expired_keys", "expired_keys_total">>,
   <<"expired_time_cap_reached_count", "expired_time_cap_reached_total">>,
   <<"expire_cycle_cpu_milliseconds", "expire_cycle_cpu_time_ms_total">>,
   <<"evicted_keys", "evicted_keys_total">>,
   <<"evicted_clients", "evicted_clients_total">>,
   <<"evicted_scripts", "evicted_scripts_total">>,
   <<"total_eviction_exceeded_time", "eviction_exceeded_time_ms_total">>,
   <<"keyspace_hits", "keyspace_hits_total">>,
   <<"keyspace_misses", "keyspace_misses_total">>,
   <<"used_cpu_sys", "cpu_sys_seconds_total">>,
   <<"used_cpu_user", "cpu_user_seconds_total">>,
   <<"used_cpu_sys_children", "cpu_sys_children_seconds_total">>,
   <<"used_cpu_user_children", "cpu_user_children_seconds_total">>,
   <<"used_cpu_sys_main_thread", "cpu_sys_main_thread_seconds_total">>,
   <<"used_cpu_user_main_thread", "cpu_user_main_thread_seconds_total">>,
   <<"unexpected_error_replies", "unexpected_error_replies">>,
   <<"total_error_replies", "total_error_replies">>,
   <<"dump_payload_sanitizations", "dump_payload_sanitizations">>,
   <<"total_reads_processed", "total_reads_processed">>,
   <<"total_writes_processed", "total_writes_processed">>,
   <<"io_threaded_reads_processed", "io_threaded_reads_processed">>,
   <<"io_threaded_writes_processed", "io_threaded_writes_processed">>,
   <<"client_query_buffer_limit_disconnections", "client_query_buffer_limit_disconnections_total">>,
   <<"client_output_buffer_limit_disconnections", "client_output_buffer_limit_disconnections_total">>,
   <<"reply_buffer_shrinks", "reply_buffer_shrinks_total">>,
   <<"reply_buffer_expands", "reply_buffer_expands_total">>,
   <<"acl_access_denied_auth", "acl_access_denied_auth_total">>,
   <<"acl_access_denied_cmd", "acl_access_denied_cmd_total">>,
   <<"acl_access_denied_key", "acl_access_denied_key_total">>,
   <<"acl_access_denied_channel", "acl_access_denied_channel_total">>,
   <<"cached_keys", "cached_keys_total">>,
   <<"storage_provider_read_hits", "storage_provider_read_hits">>,
   <<"storage_provider_read_misses", "storage_provider_read_misses">>,
   <<"search_total_indexing_time", "search_indexing_time_ms_total">>,
   <<"search_total_cycles", "search_cycles_total">>,
   <<"search_total_ms_run", "search_run_ms_total">>,
   <<"search_gc_total_cycles", "search_gc_cycles_total">>,
   <<"search_gc_total_ms_run", "search_gc_run_ms_total">>,
   <<"search_total_queries_processed", "search_queries_processed_total">>,
   <<"search_total_query_commands", "search_query_commands_total">>,
   <<"search_total_query_execution_time_ms", "search_query_execution_time_ms_total">>,
   <<"search_total_active_queries", "search_active_queries_total">>}

\* the keys of a map
Keys(entries) == {e[1] : e \in entries}

\* lines 131-333 and 433-435: metricMapGauges once NewRedisExporter has returned
metricMapGauges(opts) ==
  GaugeEntries \cup (IF opts.InclSystemMetrics
                     THEN {<<"total_system_memory", "total_system_memory_bytes">>}
                     ELSE {})

\* lines 335-396: metricMapCounters once NewRedisExporter has returned
metricMapCounters(opts) == CounterEntries

\* ------------------------------------------------------------------ state

VARIABLES
  redisAddr,      \* Exporter.redisAddr
  options,        \* Exporter.options
  mutex,          \* Exporter.Mutex: the Collect call holding it, or None
  totalScrapes,   \* Exporter.totalScrapes
  scrapeDuration, \* Exporter.scrapeDuration: number of Observe calls
  pc,             \* position of each Collect call
  conn,           \* per call: state of the connection c
  dbCount,        \* per call: scrapeRedisHost's dbCount
  config,         \* per call: the reply to the config command
  infoAll,        \* per call: scrapeRedisHost's infoAll
  role,           \* per call: scrapeRedisHost's role
  err,            \* per call: the error scrapeRedisHost returns
  panicking,      \* per call: a run-time panic is unwinding the call
  luaDone,        \* per call: the Lua scripts already evaluated
  cmds,           \* per call: commands sent with doRedisCmd
  ch,             \* per call: observations sent to the channel
  ran,            \* per call: extraction functions called
  dbArgs,         \* per call: dbCount arguments passed to extraction functions
  failed,         \* per call: steps whose failure was handled locally
  scanned         \* per call: the keys the cursor scan returned

shared == <<redisAddr, options, totalScrapes, scrapeDuration>>

locals == <<conn, dbCount, config, infoAll, role, err, panicking, luaDone, cmds, ch, ran,
            dbArgs, failed, scanned>>

vars == <<redisAddr, options, mutex, totalScrapes, scrapeDuration, pc, conn, dbCount,
          config, infoAll, role, err, panicking, luaDone, cmds, ch, ran, dbArgs, failed,
          scanned>>

Init ==
  /\ redisAddr \in Addrs
  /\ options \in OptionSets
  /\ mutex = None
  /\ totalScrapes = 0
  /\ scrapeDuration = 0
  /\ pc = [p \in Procs |-> "idle"]
  /\ conn = [p \in Procs |-> "none"]
  /\ dbCount = [p \in Procs |-> 0]
  /\ config = [p \in Procs |-> <<>>]
  /\ infoAll = [p \in Procs |-> <<>>]
  /\ role = [p \in Procs |-> ""]
  /\ err = [p \in Procs |-> Nil]
  /\ panicking = [p \in Procs |-> FALSE]
  /\ luaDone = [p \in Procs |-> {}]
  /\ cmds = [p \in Procs |-> <<>>]
  /\ ch = [p \in Procs |-> <<>>]
  /\ ran = [p \in Procs |-> <<>>]
  /\ dbArgs = [p \in Procs |-> <<>>]
  /\ failed = [p \in Procs |-> {}]
  /\ scanned = [p \in Procs |-> <<>>]

\* ---------------------------------------------------------------- helpers

Goto(p, label) == pc' = [pc EXCEPT ![p] = label]

\* doRedisCmd(c, ...)
Send(p, cmd) == cmds' = [cmds EXCEPT ![p] = Append(@, cmd)]

\* e.registerConstMetricGauge(ch, ...) and ch <- ...
Emit(p, observations) == ch' = [ch EXCEPT ![p] = @ \o observations]

Call(p, fn) == ran' = [ran EXCEPT ![p] = Append(@, fn)]

\* a failure that the code logs and survives
CanFail(p) == Cardinality(failed[p]) < MaxStepFailures

Fail(p, step) == CanFail(p) /\ failed' = [failed EXCEPT ![p] = @ \cup {step}]

\* ---------------------------------------------------------------- Collect

\* The calls that have not started are interchangeable: they are numbered in
\* the order in which they reach e.Lock().
NextCaller(p) == \A q \in Procs : q < p => pc[q] # "idle"

\* Lock that does not wait for the holder to leave
LockWithoutWaiting(p) ==
  /\ pc[p] = "idle"
  /\ NextCaller(p)
  /\ mutex' = p
  /\ Goto(p, "inc")
  /\ UNCHANGED <<shared, locals>>

\* line 572: e.Lock()
Lock(p) ==
  /\ pc[p] = "idle"
  /\ NextCaller(p)
  /\ mutex = None
  /\ mutex' = p
  /\ Goto(p, "inc")
  /\ UNCHANGED <<shared, locals>>

\* lines 574-576: e.totalScrapes.Inc(), then the test of e.redisAddr
IncTotalScrapes(p) ==
  /\ pc[p] = "inc"
  /\ totalScrapes' = totalScrapes + 1
  /\ Goto(p, IF redisAddr # "" THEN "connect" ELSE "totals")
  /\ UNCHANGED <<redisAddr, options, scrapeDuration, mutex, locals>>

\* the report without the scrape duration
ReportObsWithoutDuration(e) ==
  <<IF e # Nil
    THEN Obs("exporter_last_scrape_error", 1, <<S(e)>>)
    ELSE Obs("exporter_last_scrape_error", 0, <<<<>>>>),
    Obs("up", IF e # Nil THEN 0 ELSE 1, <<>>)>>

\* lines 579-590: the error status, up, the duration
ReportObs(e) ==
  <<IF e # Nil
    THEN Obs("exporter_last_scrape_error", 1, <<S(e)>>)
    ELSE Obs("exporter_last_scrape_error", 0, <<<<>>>>),
    Obs("up", IF e # Nil THEN 0 ELSE 1, <<>>),
    Obs("exporter_last_scrape_duration_seconds", 0, <<>>)>>

Report(p) ==
  /\ pc[p] = "report"
  /\ Emit(p, ReportObs(err[p]))
  /\ scrapeDuration' = scrapeDuration + 1
  /\ Goto(p, "totals")
  /\ UNCHANGED <<redisAddr, options, totalScrapes, mutex, conn, dbCount, config, infoAll, role,
                 err, panicking, luaDone, scanned, cmds, ran, dbArgs, failed>>

\* lines 593-595
Totals(p) ==
  /\ pc[p] = "totals"
  /\ Emit(p, <<Obs("exporter_scrapes_total", totalScrapes, <<>>),
               Obs("exporter_scrape_duration_seconds", scrapeDuration, <<>>),
               Obs("target_scrape_request_errors_total", 0, <<>>)>>)
  /\ Goto(p, "unlock")
  /\ UNCHANGED <<shared, mutex, conn, dbCount, config, infoAll, role, err, panicking, luaDone, scanned,
                 cmds, ran, dbArgs, failed>>

\* e.Unlock() called at the end of Collect only, not deferred: a panic leaves
\* the mutex held
UnlockNotDeferred(p) ==
  /\ pc[p] = "unlock"
  /\ mutex' = IF panicking[p] THEN mutex ELSE None
  /\ Goto(p, "done")
  /\ dbCount' = [dbCount EXCEPT ![p] = 0]
  /\ config' = [config EXCEPT ![p] = <<>>]
  /\ infoAll' = [infoAll EXCEPT ![p] = <<>>]
  /\ role' = [role EXCEPT ![p] = ""]
  /\ err' = [err EXCEPT ![p] = Nil]
  /\ panicking' = [panicking EXCEPT ![p] = FALSE]
  /\ luaDone' = [luaDone EXCEPT ![p] = {}]
  /\ cmds' = [cmds EXCEPT ![p] = <<>>]
  /\ ch' = [ch EXCEPT ![p] = <<>>]
  /\ ran' = [ran EXCEPT ![p] = <<>>]
  /\ dbArgs' = [dbArgs EXCEPT ![p] = <<>>]
  /\ failed' = [failed EXCEPT ![p] = {}]
  /\ scanned' = [scanned EXCEPT ![p] = <<>>]
  /\ conn' = [conn EXCEPT ![p] = IF @ = "closed" THEN "none" ELSE @]
  /\ UNCHANGED shared

\* line 573: the deferred e.Unlock(); the call's locals end with it, and a
\* closed connection with them (one left open stays open)
Unlock(p) ==
  /\ pc[p] = "unlock"
  /\ mutex' = None
  /\ Goto(p, "done")
  /\ dbCount' = [dbCount EXCEPT ![p] = 0]
  /\ config' = [config EXCEPT ![p] = <<>>]
  /\ infoAll' = [infoAll EXCEPT ![p] = <<>>]
  /\ role' = [role EXCEPT ![p] = ""]
  /\ err' = [err EXCEPT ![p] = Nil]
  /\ panicking' = [panicking EXCEPT ![p] = FALSE]
  /\ luaDone' = [luaDone EXCEPT ![p] = {}]
  /\ cmds' = [cmds EXCEPT ![p] = <<>>]
  /\ ch' = [ch EXCEPT ![p] = <<>>]
  /\ ran' = [ran EXCEPT ![p] = <<>>]
  /\ dbArgs' = [dbArgs EXCEPT ![p] = <<>>]
  /\ failed' = [failed EXCEPT ![p] = {}]
  /\ scanned' = [scanned EXCEPT ![p] = <<>>]
  /\ conn' = [conn EXCEPT ![p] = IF @ = "closed" THEN "none" ELSE @]
  /\ UNCHANGED shared

\* -------------------------------------------------------- scrapeRedisHost

\* Connect that logs the failure and goes on instead of returning
ConnectWithoutReturn(p) ==
  /\ pc[p] = "connect"
  /\ Emit(p, <<Obs("exporter_last_scrape_connect_time_seconds", 0, <<>>)>>)
  /\ \E ok \in BOOLEAN :
       IF ok
       THEN /\ conn' = [conn EXCEPT ![p] = "open"]
            /\ UNCHANGED err
       ELSE /\ err' = [err EXCEPT ![p] = "connection refused"]
            /\ UNCHANGED conn
  /\ Goto(p, "ping")
  /\ UNCHANGED <<shared, mutex, dbCount, config, infoAll, role, panicking, luaDone, scanned, cmds,
                 ran, dbArgs, failed>>

\* lines 670-687: connectToRedis, the connect time, the early return
Connect(p) ==
  /\ pc[p] = "connect"
  /\ Emit(p, <<Obs("exporter_last_scrape_connect_time_seconds", 0, <<>>)>>)
  /\ \E ok \in BOOLEAN :
       IF ok
       THEN /\ conn' = [conn EXCEPT ![p] = "open"]
            /\ Goto(p, "ping")
            /\ UNCHANGED err
       ELSE /\ err' = [err EXCEPT ![p] = "connection refused"]
            /\ Goto(p, "report")
            /\ UNCHANGED conn
  /\ UNCHANGED <<shared, mutex, dbCount, config, infoAll, role, panicking, luaDone, scanned, cmds, ran,
                 dbArgs, failed>>

\* PING whose failure ends the scrape
PingReturnsError(p) ==
  /\ pc[p] = "ping"
  /\ IF options.PingOnConnect
     THEN /\ Send(p, "PING")
          /\ \/ /\ Emit(p, <<Obs("exporter_last_scrape_ping_time_seconds", 0, <<>>)>>)
                /\ Goto(p, "setname")
                /\ UNCHANGED <<failed, err>>
             \/ /\ Fail(p, "PING")
                /\ err' = [err EXCEPT ![p] = "PING failed"]
                /\ Goto(p, "close")
                /\ UNCHANGED ch
     ELSE /\ Goto(p, "setname")
          /\ UNCHANGED <<cmds, ch, failed, err>>
  /\ UNCHANGED <<shared, mutex, conn, dbCount, config, infoAll, role, panicking, luaDone, scanned,
                 ran, dbArgs>>

\* lines 692-702
Ping(p) ==
  /\ pc[p] = "ping"
  /\ IF options.PingOnConnect
     THEN /\ Send(p, "PING")
          /\ \/ /\ Emit(p, <<Obs("exporter_last_scrape_ping_time_seconds", 0, <<>>)>>)
                /\ UNCHANGED failed
             \/ /\ Fail(p, "PING")
                /\ UNCHANGED ch
     ELSE UNCHANGED <<cmds, ch, failed>>
  /\ Goto(p, "setname")
  /\ UNCHANGED <<shared, mutex, conn, dbCount, config, infoAll, role, err, panicking, luaDone, scanned,
                 ran, dbArgs>>

\* lines 704-708
SetClientName(p) ==
  /\ pc[p] = "setname"
  /\ IF options.SetClientName
     THEN /\ Send(p, "CLIENT SETNAME")
          /\ \/ UNCHANGED failed
             \/ Fail(p, "CLIENT SETNAME")
     ELSE UNCHANGED <<cmds, failed>>
  /\ Goto(p, "config")
  /\ UNCHANGED <<shared, mutex, conn, dbCount, config, infoAll, role, err, panicking, luaDone, scanned,
                 ch, ran, dbArgs>>

\* lines 710-723: the command fails, or extractConfigMetrics gets its reply
ConfigFetched(p, reply) ==
  LET res == extractConfigMetrics(options, reply) IN
  /\ config' = [config EXCEPT ![p] = reply]
  /\ Emit(p, res.out)
  /\ IF res.panicked
     THEN /\ panicking' = [panicking EXCEPT ![p] = TRUE]
          /\ Goto(p, "close")
          /\ UNCHANGED <<dbCount, err>>
     ELSE IF res.err # Nil
     THEN /\ err' = [err EXCEPT ![p] = res.err]
          /\ Goto(p, "close")
          /\ UNCHANGED <<dbCount, panicking>>
     ELSE /\ dbCount' = [dbCount EXCEPT ![p] = res.dbCount]
          /\ Goto(p, "infoall")
          /\ UNCHANGED <<err, panicking>>
  /\ UNCHANGED failed

\* a failed config command treated as the end of the scrape
ConfigFailedReturns(p) ==
  /\ Fail(p, "CONFIG GET")
  /\ err' = [err EXCEPT ![p] = "CONFIG failed"]
  /\ Goto(p, "close")
  /\ UNCHANGED <<ch, dbCount, config, panicking>>

\* lines 720-722: the error of the command is logged, the scrape goes on
ConfigFailed(p) ==
  /\ Fail(p, "CONFIG GET")
  /\ Goto(p, "infoall")
  /\ UNCHANGED <<ch, dbCount, config, err, panicking>>

Config(p) ==
  /\ pc[p] = "config"
  /\ IF options.ConfigCommandName = "-"
     THEN /\ Goto(p, "infoall")
          /\ UNCHANGED <<cmds, ch, dbCount, config, err, panicking, failed>>
     ELSE /\ Send(p, "CONFIG GET")
          /\ \/ \E reply \in ConfigReplies : ConfigFetched(p, reply)
             \/ ConfigFailed(p)
  /\ UNCHANGED <<shared, mutex, conn, infoAll, role, luaDone, scanned, ran, dbArgs>>

\* lines 725-727: INFO ALL; an error or an empty report falls back to INFO
InfoAll(p) ==
  /\ pc[p] = "infoall"
  /\ Send(p, "INFO ALL")
  /\ \/ /\ Fail(p, "INFO ALL")
        /\ infoAll' = [infoAll EXCEPT ![p] = <<>>]
        /\ Goto(p, "info")
     \/ \E text \in InfoTexts \cup {<<>>} :
          /\ infoAll' = [infoAll EXCEPT ![p] = text]
          /\ Goto(p, IF text = <<>> THEN "info" ELSE "cluster")
          /\ UNCHANGED failed
  /\ UNCHANGED <<shared, mutex, conn, dbCount, config, role, err, panicking, luaDone, scanned, ch, ran,
                 dbArgs>>

\* INFO sent again when it failed
InfoRetried(p) ==
  /\ pc[p] = "info"
  /\ Send(p, "INFO")
  /\ \/ /\ Goto(p, "info")
        /\ UNCHANGED <<infoAll, err>>
     \/ \E text \in InfoTexts \cup {<<>>} :
          /\ infoAll' = [infoAll EXCEPT ![p] = text]
          /\ Goto(p, "cluster")
          /\ UNCHANGED err
  /\ UNCHANGED <<shared, mutex, conn, dbCount, config, role, panicking, luaDone, scanned, ch, ran,
                 dbArgs, failed>>

\* lines 728-733: INFO; its error ends the scrape
Info(p) ==
  /\ pc[p] = "info"
  /\ Send(p, "INFO")
  /\ \/ /\ err' = [err EXCEPT ![p] = "INFO failed"]
        /\ Goto(p, "close")
        /\ UNCHANGED infoAll
     \/ \E text \in InfoTexts \cup {<<>>} :
          /\ infoAll' = [infoAll EXCEPT ![p] = text]
          /\ Goto(p, "cluster")
          /\ UNCHANGED err
  /\ UNCHANGED <<shared, mutex, conn, dbCount, config, role, panicking, luaDone, scanned, ch, ran,
                 dbArgs, failed>>

\* the Redis default number of databases, line 749
DefaultDatabases == 16

\* the default applied to every count that is not positive
ResolveDbCountNonPositive(text, clusterInfoOk, db) ==
  IF Contains(text, "cluster_enabled:1")
  THEN IF clusterInfoOk THEN 1 ELSE db
  ELSE IF db <= 0 THEN DefaultDatabases ELSE db

\* lines 736-750: dbCount after the cluster test; clusterInfoOk is the
\* outcome of CLUSTER INFO where it is sent
ResolveDbCount(text, clusterInfoOk, db) ==
  IF Contains(text, "cluster_enabled:1")
  THEN IF clusterInfoOk THEN 1 ELSE db
  ELSE IF db = 0 THEN DefaultDatabases ELSE db

Cluster(p) ==
  /\ pc[p] = "cluster"
  /\ IF Contains(infoAll[p], "cluster_enabled:1")
     THEN /\ Send(p, "CLUSTER INFO")
          /\ \/ /\ Call(p, "extractClusterInfoMetrics")
                /\ dbCount' = [dbCount EXCEPT ![p] = ResolveDbCount(infoAll[p], TRUE, @)]
                /\ UNCHANGED failed
             \/ /\ Fail(p, "CLUSTER INFO")
                /\ dbCount' = [dbCount EXCEPT ![p] = ResolveDbCount(infoAll[p], FALSE, @)]
                /\ UNCHANGED ran
     ELSE /\ dbCount' = [dbCount EXCEPT ![p] = ResolveDbCount(infoAll[p], FALSE, @)]
          /\ UNCHANGED <<cmds, ran, failed>>
  /\ Goto(p, "infometrics")
  /\ UNCHANGED <<shared, mutex, conn, config, infoAll, role, err, panicking, luaDone, scanned, ch, dbArgs>>

\* line 754
InfoMetrics(p) ==
  /\ pc[p] = "infometrics"
  /\ Call(p, "extractInfoMetrics")
  /\ dbArgs' = [dbArgs EXCEPT ![p] = Append(@, dbCount[p])]
  /\ role' = [role EXCEPT ![p] = extractInfoMetricsRole(infoAll[p])]
  /\ Goto(p, "latency")
  /\ UNCHANGED <<shared, mutex, conn, dbCount, config, infoAll, err, panicking, luaDone, scanned, cmds, ch,
                 failed>>

\* an extraction call whose failure is returned as the scrape's error
ExtractStepReturnsError(p, here, fn, args, enabled, next) ==
  /\ pc[p] = here
  /\ IF enabled
     THEN /\ Call(p, fn)
          /\ dbArgs' = [dbArgs EXCEPT ![p] = @ \o args]
          /\ \/ /\ Goto(p, next)
                /\ UNCHANGED <<failed, err>>
             \/ /\ Fail(p, fn)
                /\ err' = [err EXCEPT ![p] = "step failed"]
                /\ Goto(p, "close")
     ELSE /\ Goto(p, next)
          /\ UNCHANGED <<ran, dbArgs, failed, err>>
  /\ UNCHANGED <<shared, mutex, conn, dbCount, config, infoAll, role, panicking, luaDone, scanned,
                 cmds, ch>>

\* an extraction call whose failure skips the rest of the scrape
ExtractStepSkipsRest(p, here, fn, args, enabled, next) ==
  /\ pc[p] = here
  /\ IF enabled
     THEN /\ Call(p, fn)
          /\ dbArgs' = [dbArgs EXCEPT ![p] = @ \o args]
          /\ \/ /\ Goto(p, next)
                /\ UNCHANGED failed
             \/ /\ Fail(p, fn)
                /\ Goto(p, "close")
     ELSE /\ Goto(p, next)
          /\ UNCHANGED <<ran, dbArgs, failed>>
  /\ UNCHANGED <<shared, mutex, conn, dbCount, config, infoAll, role, err, panicking,
                 luaDone, scanned, cmds, ch>>

\* lines 756-793: one extraction call that returns nothing, or whose error
\* is only logged; disabled, it is passed over
ExtractStep(p, here, fn, args, enabled, next) ==
  /\ pc[p] = here
  /\ IF enabled
     THEN /\ Call(p, fn)
          /\ dbArgs' = [dbArgs EXCEPT ![p] = @ \o args]
          /\ \/ UNCHANGED failed
             \/ Fail(p, fn)
     ELSE UNCHANGED <<ran, dbArgs, failed>>
  /\ Goto(p, next)
  /\ UNCHANGED <<shared, mutex, conn, dbCount, config, infoAll, role, err, panicking, luaDone, scanned,
                 cmds, ch>>

\* the test of the flag alone, the role ignored
RunCheckKeysFlagOnly(r, opts) == ~opts.SkipCheckKeysForRoleMaster

\* line 763
RunCheckKeys(r, opts) == r = InstanceRoleSlave \/ ~opts.SkipCheckKeysForRoleMaster

\* lines 756-758, then the test of line 763
Latency(p) ==
  ExtractStep(p, "latency", "extractLatencyMetrics", <<>>,
              ~options.ExcludeLatencyHistogramMetrics,
              IF RunCheckKeys(role[p], options) THEN "checkkeys" ELSE "slowlog")

\* lines 764-766
CheckKeys(p) == ExtractStep(p, "checkkeys", "extractCheckKeyMetrics", <<>>, TRUE, "countkeys")

\* line 768
CountKeys(p) == ExtractStep(p, "countkeys", "extractCountKeysMetrics", <<>>, TRUE, "streams")

\* line 770
Streams(p) == ExtractStep(p, "streams", "extractStreamMetrics", <<>>, TRUE, "slowlog")

\* line 775
SlowLog(p) == ExtractStep(p, "slowlog", "extractSlowLogMetrics", <<>>, TRUE, "keygroups")

\* line 777
KeyGroups(p) ==
  ExtractStep(p, "keygroups", "extractKeyGroupMetrics", <<dbCount[p]>>, TRUE, "sentinel")

\* lines 779-781
Sentinel(p) ==
  ExtractStep(p, "sentinel", "extractSentinelMetrics", <<>>,
              Contains(infoAll[p], "# Sentinel"), "clientlist")

\* lines 783-785
ClientList(p) ==
  ExtractStep(p, "clientlist", "extractConnectedClientMetrics", <<>>,
              options.ExportClientList, "tile38")

\* lines 787-789
Tile38(p) ==
  ExtractStep(p, "tile38", "extractTile38Metrics", <<>>, options.IsTile38, "modules")

\* lines 791-795: with no Lua script the function returns nil
Modules(p) ==
  ExtractStep(p, "modules", "extractModulesMetrics", <<>>, options.InclModulesMetrics,
              IF options.LuaScript # {} THEN "lua" ELSE "close")

\* lines 796-803: the scripts in the map's order, which is any order; the
\* first error is returned
LuaScripts(p) ==
  /\ pc[p] = "lua"
  /\ \E filename \in options.LuaScript \ luaDone[p] :
       /\ Call(p, filename)
       /\ luaDone' = [luaDone EXCEPT ![p] = @ \cup {filename}]
       /\ \/ /\ Goto(p, IF luaDone[p] \cup {filename} = options.LuaScript
                        THEN "close" ELSE "lua")
             /\ UNCHANGED err
          \/ /\ err' = [err EXCEPT ![p] = "script error"]
             /\ Goto(p, "close")
  /\ UNCHANGED <<shared, mutex, conn, dbCount, config, infoAll, role, panicking, cmds, ch, dbArgs,
                 failed, scanned>>

\* c.Close() called at the end of the function only, not deferred
CloseOnNormalReturnOnly(p) ==
  /\ pc[p] = "close"
  /\ conn' = [conn EXCEPT ![p] = IF err[p] = Nil /\ ~panicking[p] THEN "closed" ELSE @]
  /\ Goto(p, IF panicking[p] THEN "unlock" ELSE "report")
  /\ UNCHANGED <<shared, mutex, dbCount, config, infoAll, role, err, panicking, luaDone, scanned,
                 cmds, ch, ran, dbArgs, failed>>

\* line 687: the deferred c.Close(), on every way out after the connect
Close(p) ==
  /\ pc[p] = "close"
  /\ conn' = [conn EXCEPT ![p] = "closed"]
  /\ Goto(p, IF panicking[p] THEN "unlock" ELSE "report")
  /\ UNCHANGED <<shared, mutex, dbCount, config, infoAll, role, err, panicking, luaDone, scanned, cmds, ch,
                 ran, dbArgs, failed>>

\* ------------------------------------------------------------------- spec

Next ==
  \E p \in Procs :
    \/ Lock(p)
    \/ IncTotalScrapes(p)
    \/ Connect(p)
    \/ Ping(p)
    \/ SetClientName(p)
    \/ Config(p)
    \/ InfoAll(p)
    \/ Info(p)
    \/ Cluster(p)
    \/ InfoMetrics(p)
    \/ Latency(p)
    \/ CheckKeys(p)
    \/ CountKeys(p)
    \/ Streams(p)
    \/ SlowLog(p)
    \/ KeyGroups(p)
    \/ Sentinel(p)
    \/ ClientList(p)
    \/ Tile38(p)
    \/ Modules(p)
    \/ LuaScripts(p)
    \/ Close(p)
    \/ Report(p)
    \/ Totals(p)
    \/ Unlock(p)

Spec == Init /\ [][Next]_vars

\* one step of the call p of Collect
Collect(p) ==
  \/ Lock(p) \/ IncTotalScrapes(p) \/ Connect(p) \/ Ping(p) \/ SetClientName(p)
  \/ Config(p) \/ InfoAll(p) \/ Info(p) \/ Cluster(p) \/ InfoMetrics(p) \/ Latency(p)
  \/ CheckKeys(p) \/ CountKeys(p) \/ Streams(p) \/ SlowLog(p) \/ KeyGroups(p)
  \/ Sentinel(p) \/ ClientList(p) \/ Tile38(p) \/ Modules(p) \/ LuaScripts(p)
  \/ Close(p) \/ Report(p) \/ Totals(p) \/ Unlock(p)

\* every connect and command call returns and the scheduler runs every
\* goroutine that can run; a goroutine blocked in e.Lock() is woken when the
\* mutex is released
FairSpec == Spec /\ \A p \in Procs : WF_vars(Collect(p))

\* ------------------------------------- extractConfigMetrics on its own

\* config replies of at most MaxPairs pairs
MaxPairs == 2

\* client-output-buffer-limit values of at most MaxTokens tokens
MaxTokens == 8

SeqsUpTo(set, n) == UNION {[1..k -> set] : k \in 0..n}

\* the tokens of a value, joined by single spaces
RECURSIVE Join(_)
Join(tokens) ==
  IF tokens = <<>> THEN <<>>
  ELSE IF Len(tokens) = 1 THEN tokens[1]
  ELSE tokens[1] \o <<" ">> \o Join(Tail(tokens))

PairKeys == {Bulk(S("databases")), Bulk(S("masterauth")), Bulk(S("maxmemory")), NotString}

PairValues == {Bulk(S("hunter2")), Bulk(<<"7">>), NotString}

\* the elements of a sequence of (key, value) pairs, in one sequence
RECURSIVE Flatten(_)
Flatten(pairs) ==
  IF pairs = <<>> THEN <<>> ELSE pairs[1] \o Flatten(Tail(pairs))

PairReplies == {Flatten(ps) : ps \in SeqsUpTo(PairKeys \X PairValues, MaxPairs)}

\* replies that end after a key
OddReplies ==
  {Flatten(ps) \o <<k>> : ps \in SeqsUpTo(PairKeys \X PairValues, MaxPairs - 1),
                          k \in PairKeys}

Tokens == {S("normal"), <<"7">>}

\* line 648: client-output-buffer-limit "normal 0 0 0 slave ... pubsub ..."
ExampleTokens ==
  <<S("normal"), <<"0">>, <<"0">>, <<"0">>, S("slave"), <<"1", "0">>, <<"2", "0">>, <<"5">>>>

TokenSeqs == SeqsUpTo(Tokens, MaxTokens) \cup {ExampleTokens}

BufferLimitReply(tokens) ==
  <<Bulk(S("client-output-buffer-limit")), Bulk(Join(tokens))>>

BufferLimitReplies == {BufferLimitReply(t) : t \in TokenSeqs}

ConfigInputs == PairReplies \cup OddReplies \cup BufferLimitReplies

\* extractConfigMetrics(ch, config), called as scrapeRedisHost calls it: by
\* the one caller that holds the mutex
ExtractConfig(p) ==
  /\ pc[p] = "idle"
  /\ NextCaller(p)
  /\ mutex = None
  /\ mutex' = p
  /\ \E reply \in ConfigInputs :
       LET res == extractConfigMetrics(options, reply) IN
       /\ config' = [config EXCEPT ![p] = reply]
       /\ Emit(p, res.out)
       /\ dbCount' = [dbCount EXCEPT ![p] = res.dbCount]
       /\ err' = [err EXCEPT ![p] = res.err]
       /\ panicking' = [panicking EXCEPT ![p] = res.panicked]
  /\ Call(p, "extractConfigMetrics")
  /\ Goto(p, "extracted")
  /\ UNCHANGED <<shared, conn, infoAll, role, luaDone, scanned, cmds, dbArgs, failed>>

\* the caller is done with what extractConfigMetrics returned
ExtractConfigReturn(p) ==
  /\ pc[p] = "extracted"
  /\ mutex' = None
  /\ Goto(p, "done")
  /\ config' = [config EXCEPT ![p] = <<>>]
  /\ ch' = [ch EXCEPT ![p] = <<>>]
  /\ dbCount' = [dbCount EXCEPT ![p] = 0]
  /\ err' = [err EXCEPT ![p] = Nil]
  /\ panicking' = [panicking EXCEPT ![p] = FALSE]
  /\ ran' = [ran EXCEPT ![p] = <<>>]
  /\ UNCHANGED <<shared, conn, infoAll, role, luaDone, scanned, cmds, dbArgs, failed>>

NextConfig ==
  \E p \in Procs :
    \/ ExtractConfig(p)
    \/ ExtractConfigReturn(p)

SpecConfig == Init /\ [][NextConfig]_vars

\* ----------------------------------- extractKeyGroupMetrics on its own

\* scans of at most MaxKeys keys
MaxKeys == 3

ScanKeys ==
  {<<"user", ":", "1">>, <<"user", ":", "2">>, <<"cart", ":", "1">>, <<"job", ":", "7">>}

KeySeqs == SeqsUpTo(ScanKeys, MaxKeys)

\* the group identifier of a key: its numeric segments collapse to a placeholder
GroupOf(key) == [i \in 1..Len(key) |-> IF key[i] \in Digits THEN "*" ELSE key[i]]

\* the label of the bucket for the keys of the groups that are not retained
Overflow == S("overflow")

\* the mapping of one database: the retained groups in the order they were
\* met, their key counts, and the count of the keys folded into the bucket
NoGroups == [order |-> <<>>, count |-> <<>>, overflow |-> 0]

\* a key folded into the mapping with no cap on the groups
FoldKeyUncapped(acc, key, cap) ==
  LET g == GroupOf(key) IN
  IF \E i \in 1..Len(acc.order) : acc.order[i] = g
  THEN [acc EXCEPT !.count =
          [i \in 1..Len(acc.order) |-> IF acc.order[i] = g THEN @[i] + 1 ELSE @[i]]]
  ELSE [acc EXCEPT !.order = Append(@, g), !.count = Append(@, 1)]

\* a key folded into the mapping: counted in its group, in a new group while
\* fewer than cap groups are retained, in the overflow bucket after that
FoldKey(acc, key, cap) ==
  LET g == GroupOf(key) IN
  IF \E i \in 1..Len(acc.order) : acc.order[i] = g
  THEN [acc EXCEPT !.count =
          [i \in 1..Len(acc.order) |-> IF acc.order[i] = g THEN @[i] + 1 ELSE @[i]]]
  ELSE IF Len(acc.order) < cap
  THEN [acc EXCEPT !.order = Append(@, g), !.count = Append(@, 1)]
  ELSE [acc EXCEPT !.overflow = @ + 1]

RECURSIVE FoldKeys(_, _, _)
FoldKeys(acc, keys, cap) ==
  IF keys = <<>> THEN acc
  ELSE FoldKeys(FoldKey(acc, Head(keys), cap), Tail(keys), cap)

\* one observation pair of a group or of the bucket
KeyGroupPair(db, group, count) ==
  <<Obs("key_group_count", count, <<db, group>>),
    Obs("key_group_memory_usage_bytes", 0, <<db, group>>)>>

RECURSIVE RetainedObs(_, _, _)
RetainedObs(db, acc, i) ==
  IF i > Len(acc.order) THEN <<>>
  ELSE KeyGroupPair(db, acc.order[i], acc.count[i]) \o RetainedObs(db, acc, i + 1)

\* the observations of one database: a pair per retained group, the bucket
\* if a key was folded into it, the summary, the duration of the pass
KeyGroupObs(db, acc) ==
  RetainedObs(db, acc, 1)
    \o (IF acc.overflow > 0 THEN KeyGroupPair(db, Overflow, acc.overflow) ELSE <<>>)
    \o <<Obs("number_of_distinct_key_groups", Len(acc.order), <<db>>),
         Obs("key_groups_scan_duration", 0, <<>>)>>

extractKeyGroupMetrics(opts, keys) ==
  KeyGroupObs(S("db0"), FoldKeys(NoGroups, keys, opts.MaxDistinctKeyGroups))

\* line 777: e.extractKeyGroupMetrics(ch, c, dbCount), by the one caller that
\* holds the mutex
ExtractKeyGroups(p) ==
  /\ pc[p] = "idle"
  /\ NextCaller(p)
  /\ mutex = None
  /\ mutex' = p
  /\ \E keys \in KeySeqs :
       /\ scanned' = [scanned EXCEPT ![p] = keys]
       /\ Emit(p, extractKeyGroupMetrics(options, keys))
  /\ Call(p, "extractKeyGroupMetrics")
  /\ Goto(p, "grouped")
  /\ UNCHANGED <<shared, conn, dbCount, config, infoAll, role, err, panicking, luaDone, cmds,
                 dbArgs, failed>>

\* the caller is done with the pass
ExtractKeyGroupsReturn(p) ==
  /\ pc[p] = "grouped"
  /\ mutex' = None
  /\ Goto(p, "done")
  /\ scanned' = [scanned EXCEPT ![p] = <<>>]
  /\ ch' = [ch EXCEPT ![p] = <<>>]
  /\ ran' = [ran EXCEPT ![p] = <<>>]
  /\ UNCHANGED <<shared, conn, dbCount, config, infoAll, role, err, panicking, luaDone, cmds,
                 dbArgs, failed>>

NextKeyGroups ==
  \E p \in Procs :
    \/ ExtractKeyGroups(p)
    \/ ExtractKeyGroupsReturn(p)

SpecKeyGroups == Init /\ [][NextKeyGroups]_vars

\* ------------------------------------------------------------- properties

Range(seq) == {seq[i] : i \in 1..Len(seq)}

\* between Lock and Unlock
InSection(p) == pc[p] \notin {"idle", "done"}

\* scrapeRedisHost has returned or is returning
Returning == {"close", "report", "totals", "unlock"}

\* the call has sent everything it sends
Emitted(p) == pc[p] = "unlock" /\ ~panicking[p]

\* the scrape got its status report and went on to the extraction steps
ReachedExtraction(p) == "extractInfoMetrics" \in Range(ran[p])

ConnectError == "connection refused"

ConfigErrors == {"invalid config", "invalid config value for key databases"}

UpObs(p) == {o \in Range(ch[p]) : o.name = "up"}

ErrorObs(p) == {o \in Range(ch[p]) : o.name = "exporter_last_scrape_error"}

ReportsUp(p) ==
  /\ UpObs(p) = {Obs("up", 1, <<>>)}
  /\ ErrorObs(p) = {Obs("exporter_last_scrape_error", 0, <<<<>>>>)}

ReportsDown(p, e) ==
  /\ UpObs(p) = {Obs("up", 0, <<>>)}
  /\ ErrorObs(p) = {Obs("exporter_last_scrape_error", 1, <<S(e)>>)}

\* C1, as stated: at most one Collect is between Lock and Unlock, and
\* totalScrapes and scrapeDuration are each updated exactly once per Collect.
C1_ExactlyOncePerCollect ==
  /\ \A p, q \in Procs : InSection(p) /\ InSection(q) => p = q
  /\ totalScrapes = Cardinality({p \in Procs : pc[p] \notin {"idle", "inc"}})
  /\ scrapeDuration = Cardinality({p \in Procs : pc[p] \in {"totals", "unlock", "done"}})

\* C1, amended: at most one Collect is between Lock and Unlock and it holds the
\* mutex, so the steps of two scrapes never interleave; totalScrapes is updated
\* exactly once per Collect, scrapeDuration at most once per Collect and not at
\* all when the target address is empty.
C1_Serialized ==
  /\ \A p, q \in Procs : InSection(p) /\ InSection(q) => p = q
  /\ \A p \in Procs : InSection(p) => mutex = p
  /\ \A p \in Procs : ~InSection(p) => cmds[p] = <<>> /\ ch[p] = <<>> /\ ran[p] = <<>>
  /\ totalScrapes = Cardinality({p \in Procs : pc[p] \notin {"idle", "inc"}})
  /\ scrapeDuration <= Cardinality({p \in Procs : pc[p] \in {"totals", "unlock", "done"}})
  /\ redisAddr = "" => scrapeDuration = 0

C1_Witness ==
  \E p, q \in Procs :
    /\ pc[p] = "done"
    /\ pc[q] = "totals"
    /\ totalScrapes = 2
    /\ scrapeDuration = 2

\* C2: once connectToRedis has failed, no command is sent and no extraction
\* function is called, scrapeRedisHost has produced the connect time only, and
\* Collect reports up=0 and exporter_last_scrape_error=1 with the error text.
C2_ConnectFailureIsTerminal ==
  \A p \in Procs :
    err[p] = ConnectError =>
      /\ pc[p] \in {"report", "totals", "unlock"}
      /\ cmds[p] = <<>>
      /\ ran[p] = <<>>
      /\ conn[p] = "none"
      /\ pc[p] = "report" =>
           ch[p] = <<Obs("exporter_last_scrape_connect_time_seconds", 0, <<>>)>>
      /\ pc[p] # "report" => ReportsDown(p, ConnectError)

C2_Witness ==
  \E p \in Procs : err[p] = ConnectError /\ Emitted(p) /\ ReportsDown(p, ConnectError)

\* C3, as stated: after a connection failure the observations of the Collect
\* are exactly up=0 and exporter_last_scrape_error=1.
C3_OnlyUpAndError ==
  \A p \in Procs :
    Emitted(p) /\ err[p] = ConnectError =>
      Range(ch[p]) = {Obs("up", 0, <<>>),
                      Obs("exporter_last_scrape_error", 1, <<S(ConnectError)>>)}

\* C3, amended: after a connection failure the Collect emits exactly seven
\* observations: the connect time, exporter_last_scrape_error=1 with the error
\* text, up=0, the scrape duration, and the exporter's three own collectors.
C3_ConnectFailureObservations ==
  \A p \in Procs :
    Emitted(p) /\ err[p] = ConnectError =>
      /\ Len(ch[p]) = 7
      /\ [i \in 1..7 |-> ch[p][i].name] =
           <<"exporter_last_scrape_connect_time_seconds", "exporter_last_scrape_error",
             "up", "exporter_last_scrape_duration_seconds", "exporter_scrapes_total",
             "exporter_scrape_duration_seconds", "target_scrape_request_errors_total">>
      /\ ReportsDown(p, ConnectError)

C3_Witness ==
  \E p \in Procs : Emitted(p) /\ err[p] = ConnectError /\ Len(ch[p]) = 7

InfoError == "INFO failed"

ScriptError == "script error"

\* C4, as stated: with ConfigCommandName "-" no config command is sent; a
\* config command that was sent and failed ends the scrape with an error,
\* before INFO.
C4_ConfigCommandFailureIsTerminal ==
  \A p \in Procs :
    /\ options.ConfigCommandName = "-" => "CONFIG GET" \notin Range(cmds[p])
    /\ "CONFIG GET" \in failed[p] =>
         /\ pc[p] \in Returning
         /\ err[p] # Nil
         /\ "INFO ALL" \notin Range(cmds[p])

\* C4, amended: with ConfigCommandName "-" no config command is sent and the
\* scrape goes on; a config command that was sent and failed is only logged,
\* the scrape goes on to INFO ALL with dbCount 0 and no error; the step ends
\* the scrape only when the command succeeded and extractConfigMetrics rejects
\* the reply, and then no INFO or later step runs and up=0 is reported.
C4_OnlyRejectedReplyIsTerminal ==
  \A p \in Procs :
    /\ options.ConfigCommandName = "-" => "CONFIG GET" \notin Range(cmds[p])
    /\ "CONFIG GET" \in failed[p] =>
         /\ err[p] \notin ConfigErrors
         /\ pc[p] = "infoall" => dbCount[p] = 0 /\ err[p] = Nil
         /\ pc[p] # "infoall" => "INFO ALL" \in Range(cmds[p])
    /\ err[p] \in ConfigErrors =>
         /\ pc[p] \in Returning
         /\ cmds[p][Len(cmds[p])] = "CONFIG GET"
         /\ "CONFIG GET" \notin failed[p]
         /\ ran[p] = <<>>
         /\ Emitted(p) => ReportsDown(p, err[p])

C4_Witness ==
  \E p \in Procs :
    /\ "CONFIG GET" \in failed[p]
    /\ Emitted(p)
    /\ ReachedExtraction(p)
    /\ ReportsUp(p)

IsExtraction(fn) == fn \notin options.LuaScript

\* the extraction calls of one scrape that the options, the status report and
\* the role enable, in the order of lines 754-793
EnabledSteps(p) ==
  <<"extractInfoMetrics">>
  \o (IF options.ExcludeLatencyHistogramMetrics THEN <<>> ELSE <<"extractLatencyMetrics">>)
  \o (IF role[p] = "slave" \/ ~options.SkipCheckKeysForRoleMaster
      THEN <<"extractCheckKeyMetrics", "extractCountKeysMetrics", "extractStreamMetrics">>
      ELSE <<>>)
  \o <<"extractSlowLogMetrics", "extractKeyGroupMetrics">>
  \o (IF Contains(infoAll[p], "# Sentinel") THEN <<"extractSentinelMetrics">> ELSE <<>>)
  \o (IF options.ExportClientList THEN <<"extractConnectedClientMetrics">> ELSE <<>>)
  \o (IF options.IsTile38 THEN <<"extractTile38Metrics">> ELSE <<>>)
  \o (IF options.InclModulesMetrics THEN <<"extractModulesMetrics">> ELSE <<>>)

\* the calls made from extractInfoMetrics on, Lua scripts left out
StepsRun(p) ==
  SelectSeq(ran[p], LAMBDA fn : IsExtraction(fn) /\ fn # "extractClusterInfoMetrics")

SomeStepFailed(p) ==
  \/ \E fn \in failed[p] : fn \in Range(ran[p])
  \/ err[p] = ScriptError

ClusterEnabled(p) == Contains(infoAll[p], "cluster_enabled:1")

\* C8: in a scrape whose status report contains cluster_enabled:1, every
\* database count passed to extractInfoMetrics and extractKeyGroupMetrics is 1.
C8_ClusterForcesOne ==
  \A p \in Procs : ClusterEnabled(p) => \A i \in DOMAIN dbArgs[p] : dbArgs[p][i] = 1

\* the pairs of a config reply that set the databases count
DatabasesEntries(reply) ==
  {i \in 1..(Len(reply) \div 2) :
     /\ reply[2 * i - 1] = Bulk(S("databases"))
     /\ RedisStringOk(reply[2 * i])
     /\ AtoiOk(reply[2 * i].str)}

LastEntry(entries) == CHOOSE i \in entries : \A j \in entries : j <= i

DatabasesValue(reply) == Atoi(reply[2 * LastEntry(DatabasesEntries(reply))].str)

\* C9, as stated: without cluster_enabled:1 the database count passed on is
\* the integer N of the fetched `databases` entry, and 16 when the config step
\* is disabled, its command failed or the reply has no such entry.
C9_DatabasesValueOrDefault ==
  \A p \in Procs :
    ~ClusterEnabled(p) =>
      \A i \in DOMAIN dbArgs[p] :
        dbArgs[p][i] = IF DatabasesEntries(config[p]) # {}
                       THEN DatabasesValue(config[p])
                       ELSE 16

\* C9, amended: without cluster_enabled:1 the database count passed on is the
\* integer N of the fetched `databases` entry when N is not 0, and 16 when N is
\* 0, the config step is disabled, its command failed or the reply has no such
\* entry.
C9_NonZeroDatabasesValueOrDefault ==
  \A p \in Procs :
    ~ClusterEnabled(p) =>
      \A i \in DOMAIN dbArgs[p] :
        dbArgs[p][i] = IF /\ DatabasesEntries(config[p]) # {}
                          /\ DatabasesValue(config[p]) # 0
                       THEN DatabasesValue(config[p])
                       ELSE 16

C9_Witness ==
  \E p \in Procs :
    /\ Emitted(p)
    /\ ~ClusterEnabled(p)
    /\ config[p] = <<Bulk(S("databases")), Bulk(<<"3", "2">>)>>
    /\ dbArgs[p] = <<32, 32>>

CheckKeySteps ==
  {"extractCheckKeyMetrics", "extractCountKeysMetrics", "extractStreamMetrics"}

\* C10: CheckKeys, CountKeys and Streams run in a scrape exactly when the
\* role is slave or SkipCheckKeysForRoleMaster is false, and SlowLog and
\* KeyGroups run in both cases.
C10_CheckKeysGate ==
  \A p \in Procs :
    /\ \A fn \in CheckKeySteps :
         fn \in Range(ran[p]) => role[p] = "slave" \/ ~options.SkipCheckKeysForRoleMaster
    /\ "extractSlowLogMetrics" \in Range(ran[p]) =>
         \A fn \in CheckKeySteps :
           fn \in Range(ran[p]) <=>
             (role[p] = "slave" \/ ~options.SkipCheckKeysForRoleMaster)
    /\ pc[p] \in Returning /\ ReachedExtraction(p) =>
         {"extractSlowLogMetrics", "extractKeyGroupMetrics"} \subseteq Range(ran[p])

C10_Witness ==
  \E p \in Procs :
    /\ Emitted(p)
    /\ role[p] = "slave"
    /\ options.SkipCheckKeysForRoleMaster
    /\ CheckKeySteps \subseteq Range(ran[p])
    /\ "extractKeyGroupMetrics" \in Range(ran[p])

\* C11: once NewRedisExporter has returned, no source field name is a key of
\* both metricMapGauges and metricMapCounters.
C11_TablesDisjoint ==
  Keys(metricMapGauges(options)) \cap Keys(metricMapCounters(options)) = {}

\* the positions of the channel that carry an observation of that name
Sent(p, name) == {i \in 1..Len(ch[p]) : ch[p][i].name = name}

\* C12: a Collect on an exporter with a target address, when it ends, has
\* sent exactly one up and exactly one exporter_last_scrape_error observation,
\* and the two agree: up=1 with error=0 and an empty err label, or up=0 with
\* error=1 and the error text as label.
C12_OneUpOneErrorAgree ==
  \A p \in Procs :
    redisAddr # "" /\ pc[p] = "unlock" =>
      /\ Cardinality(Sent(p, "up")) = 1
      /\ Cardinality(Sent(p, "exporter_last_scrape_error")) = 1
      /\ \/ ReportsUp(p)
         \/ \E e \in {ConnectError, InfoError, ScriptError} \cup ConfigErrors :
              ReportsDown(p, e)

\* extractConfigMetrics has returned (or panicked) and its caller holds the result
Extracted(p) == pc[p] = "extracted"

\* the positions of a reply that hold the value of a sensitive key
SensitivePositions(reply) ==
  {i \in 1..Len(reply) :
     i % 2 = 0 /\ RedisStringOk(reply[i - 1]) /\ reply[i - 1].str \in RedactedKeys}

SecretValues ==
  {Bulk(S("hunter2")), Bulk(S("swordfish")), Bulk(<<"7">>), Bulk(<<>>), NotString}

\* the replies that differ from reply at most in the values of sensitive keys
SensitiveVariants(reply) ==
  {[i \in 1..Len(reply) |-> IF i \in SensitivePositions(reply) THEN f[i] ELSE reply[i]] :
     f \in [SensitivePositions(reply) -> SecretValues]}

\* the (key, value) pairs of a reply that are strings and not sensitive
OpenPairs(reply) ==
  {<<reply[i - 1].str, reply[i].str>> :
     i \in {j \in 1..Len(reply) :
              /\ j % 2 = 0
              /\ RedisStringOk(reply[j - 1]) /\ RedisStringOk(reply[j])
              /\ reply[j - 1].str \notin RedactedKeys}}

\* C13: with RedactConfigMetrics set, the observations of extractConfigMetrics
\* are the same for every two replies that differ only in the values of
\* masterauth, requirepass, tls-key-file-pass and tls-client-key-file-pass; no
\* config_key_value or config_value observation is about such a key; and with
\* InclConfigMetrics every other string pair of an accepted reply still gets
\* its config_key_value observation.
C13_RedactionHidesSensitiveValues ==
  \A p \in Procs :
    Extracted(p) /\ options.RedactConfigMetrics =>
      /\ \A other \in SensitiveVariants(config[p]) :
           extractConfigMetrics(options, other).out = ch[p]
      /\ \A o \in Range(ch[p]) :
           o.name \in {"config_key_value", "config_value"} =>
             o.labels[1] \notin RedactedKeys
      /\ options.InclConfigMetrics /\ err[p] = Nil =>
           \A kv \in OpenPairs(config[p]) :
             Obs("config_key_value", 1, <<kv[1], kv[2]>>) \in Range(ch[p])

\* a reply with a password and an open key was extracted under redaction
C13_Witness ==
  \E p \in Procs :
    /\ Extracted(p)
    /\ options.RedactConfigMetrics /\ options.InclConfigMetrics
    /\ config[p] = <<Bulk(S("masterauth")), Bulk(S("hunter2")),
                     Bulk(S("maxmemory")), Bulk(<<"7">>)>>
    /\ Obs("config_key_value", 1, <<S("maxmemory"), <<"7">>>>) \in Range(ch[p])

\* no element of the sequence occurs twice
NoRepeat(seq) == \A i, j \in 1..Len(seq) : seq[i] = seq[j] => i = j

Grouped(p) == pc[p] = "grouped"

\* the distinct groups the scanned keys map to
GroupsScanned(p) == {GroupOf(scanned[p][i]) : i \in 1..Len(scanned[p])}

\* the positions of the key_group_count observations of groups, and of the bucket
GroupObs(p) == {i \in Sent(p, "key_group_count") : ch[p][i].labels[2] # Overflow}

BucketObs(p) == {i \in Sent(p, "key_group_count") : ch[p][i].labels[2] = Overflow}

\* C15: the key-group pass never emits more than MaxDistinctKeyGroups distinct
\* group labels for the database, and when the scanned keys map to more groups
\* than that it emits exactly MaxDistinctKeyGroups group observations and one
\* overflow bucket.
C15_GroupLabelsCapped ==
  \A p \in Procs :
    Grouped(p) =>
      /\ Cardinality({ch[p][i].labels[2] : i \in GroupObs(p)}) <= options.MaxDistinctKeyGroups
      /\ Cardinality(GroupsScanned(p)) > options.MaxDistinctKeyGroups =>
           /\ Cardinality(GroupObs(p)) = options.MaxDistinctKeyGroups
           /\ Cardinality(BucketObs(p)) = 1

\* three groups were scanned under a cap of two
C15_Witness ==
  \E p \in Procs :
    /\ Grouped(p)
    /\ options.MaxDistinctKeyGroups = 2
    /\ Cardinality(GroupsScanned(p)) = 3
    /\ Cardinality(BucketObs(p)) = 1

LimitNames ==
  {"config_client_output_buffer_limit_bytes",
   "config_client_output_buffer_limit_overcome_seconds"}

\* the buffer-limit observations of the call, in the order sent
LimitObs(p) == SelectSeq(ch[p], LAMBDA o : o.name \in LimitNames)

\* the observation of one numeric token, none for any other token
TokenObs(name, token, class, limit) ==
  IF ParseFloatOk(token)
  THEN <<Obs(name, ParseFloat(token), <<class, S(limit)>>)>>
  ELSE <<>>

\* what the claim gives for the classes from the g-th on (g counted from 0)
RECURSIVE ClassObs(_, _)
ClassObs(tokens, g) ==
  IF 4 * g >= Len(tokens) THEN <<>>
  ELSE TokenObs("config_client_output_buffer_limit_bytes",
                tokens[4 * g + 2], tokens[4 * g + 1], "hard")
       \o TokenObs("config_client_output_buffer_limit_bytes",
                   tokens[4 * g + 3], tokens[4 * g + 1], "soft")
       \o TokenObs("config_client_output_buffer_limit_overcome_seconds",
                   tokens[4 * g + 4], tokens[4 * g + 1], "soft")
       \o ClassObs(tokens, g + 1)

\* the space-separated tokens of a value: the k-th one lies between the
\* (k-1)-th and the k-th space
SpaceAt(s, k) ==
  IF k = 0 THEN 0
  ELSE IF k > Cardinality({i \in 1..Len(s) : s[i] = " "}) THEN Len(s) + 1
  ELSE CHOOSE i \in 1..Len(s) :
         s[i] = " " /\ Cardinality({j \in 1..i : s[j] = " "}) = k

Words(s) ==
  [k \in 1..(Cardinality({i \in 1..Len(s) : s[i] = " "}) + 1) |->
     SubSeq(s, SpaceAt(s, k - 1) + 1, SpaceAt(s, k) - 1)]

\* the call's reply is the client-output-buffer-limit pair with a string value
LimitReply(p) ==
  /\ Extracted(p)
  /\ Len(config[p]) = 2
  /\ config[p][1] = Bulk(S("client-output-buffer-limit"))
  /\ RedisStringOk(config[p][2])

\* the value of the call's reply is made of these groups of 4 tokens
FourTokenGroups(p, tokens) ==
  /\ LimitReply(p)
  /\ Words(config[p][2].str) = tokens
  /\ Len(tokens) % 4 = 0

\* for groups of 4 tokens: hard, soft and overcome-seconds per class, for the
\* tokens that are numeric
LimitsPerClass ==
  \A p \in Procs :
    LimitReply(p) /\ FourTokenGroups(p, Words(config[p][2].str)) =>
      /\ ~panicking[p] /\ err[p] = Nil
      /\ LimitObs(p) = ClassObs(Words(config[p][2].str), 0)

\* C16, as stated: hard, soft and overcome-seconds per class for the numeric
\* tokens of a value in groups of 4, and for "normal 0 0 0 slave 10 20 5" the
\* hard and soft observations of normal and slave and one overcome-seconds
\* observation, that of slave.
C16_ExampleOneOvercomeSeconds ==
  /\ LimitsPerClass
  /\ \A p \in Procs :
       FourTokenGroups(p, ExampleTokens) =>
         LimitObs(p) =
           <<Obs("config_client_output_buffer_limit_bytes", 0, <<S("normal"), S("hard")>>),
             Obs("config_client_output_buffer_limit_bytes", 0, <<S("normal"), S("soft")>>),
             Obs("config_client_output_buffer_limit_bytes", 10, <<S("slave"), S("hard")>>),
             Obs("config_client_output_buffer_limit_bytes", 20, <<S("slave"), S("soft")>>),
             Obs("config_client_output_buffer_limit_overcome_seconds", 5,
                 <<S("slave"), S("soft")>>)>>

\* C16, amended: hard, soft and overcome-seconds per class for the numeric
\* tokens of a value in groups of 4, and for "normal 0 0 0 slave 10 20 5" six
\* observations: hard, soft and overcome-seconds for normal (all 0) and for
\* slave (10, 20, 5).
C16_ExampleOvercomeSecondsPerClass ==
  /\ LimitsPerClass
  /\ \A p \in Procs :
       FourTokenGroups(p, ExampleTokens) =>
         LimitObs(p) =
           <<Obs("config_client_output_buffer_limit_bytes", 0, <<S("normal"), S("hard")>>),
             Obs("config_client_output_buffer_limit_bytes", 0, <<S("normal"), S("soft")>>),
             Obs("config_client_output_buffer_limit_overcome_seconds", 0,
                 <<S("normal"), S("soft")>>),
             Obs("config_client_output_buffer_limit_bytes", 10, <<S("slave"), S("hard")>>),
             Obs("config_client_output_buffer_limit_bytes", 20, <<S("slave"), S("soft")>>),
             Obs("config_client_output_buffer_limit_overcome_seconds", 5,
                 <<S("slave"), S("soft")>>)>>

\* the example value was extracted
C16_Witness ==
  \E p \in Procs : FourTokenGroups(p, ExampleTokens) /\ Len(LimitObs(p)) = 6

\* C18: for every string value of client-output-buffer-limit, whatever its
\* number of tokens, extractConfigMetrics reads only token positions that
\* exist and returns normally.
C18_NoIndexOutOfRange ==
  \A p \in Procs : LimitReply(p) => ~panicking[p]

\* the reply has a databases pair whose value is a string that is no integer
MalformedDatabases(reply) ==
  \E i \in 1..Len(reply) :
    /\ i % 2 = 1 /\ i < Len(reply)
    /\ reply[i] = Bulk(S("databases"))
    /\ RedisStringOk(reply[i + 1]) /\ ~AtoiOk(reply[i + 1].str)

OddLength(reply) == Len(reply) % 2 # 0

ConfigObsNames ==
  {"config_key_value", "config_value", "config_io_threads", "config_maxclients",
   "config_maxmemory"} \cup LimitNames

\* C17: a config reply of odd length, or with a databases value that is not an
\* integer, makes extractConfigMetrics return an error with database count 0;
\* scrapeRedisHost returns that error before INFO or any extraction step runs
\* and up=0 is reported; an odd-length reply yields no config observation.
C17_MalformedReplyIsTerminal ==
  \A p \in Procs :
    /\ OddLength(config[p]) \/ MalformedDatabases(config[p]) =>
         /\ err[p] \in ConfigErrors
         /\ dbCount[p] = 0
         /\ pc[p] \in Returning
         /\ Range(cmds[p]) \cap {"INFO ALL", "INFO"} = {}
         /\ ran[p] = <<>>
         /\ pc[p] = "unlock" => ReportsDown(p, err[p])
    /\ OddLength(config[p]) =>
         \A o \in Range(ch[p]) : o.name \notin ConfigObsNames

\* C19: every database count passed to extractInfoMetrics and to
\* extractKeyGroupMetrics is at least 1, whatever the config step gave
\* (disabled, failed, no databases entry, any integer), whatever the cluster
\* flag of the status report and whatever the outcome of CLUSTER INFO.
C19_DbCountAtLeastOne ==
  \A p \in Procs : \A i \in 1..Len(dbArgs[p]) : dbArgs[p][i] >= 1

\* connectToRedis succeeded in the call that is about to release the mutex
ConnectedCall(p) == pc[p] = "unlock" /\ redisAddr # "" /\ err[p] # ConnectError

\* the call closes its connection in this step
Closes(p) == conn[p] # "closed" /\ conn'[p] = "closed"

\* the call sends a command in this step
Sends(p) == Len(cmds'[p]) > Len(cmds[p])

\* C20: a Collect whose connect succeeded has closed its connection when it
\* releases the mutex, on every return path; a connection is closed once, from
\* open; commands are sent on an open connection only; and at most one
\* connection is open at any time.
C20_ClosedExactlyOnce ==
  /\ [](\A p \in Procs :
          /\ ConnectedCall(p) => conn[p] = "closed"
          /\ pc[p] \in {"idle", "done"} => conn[p] = "none")
  /\ [](Cardinality({p \in Procs : conn[p] = "open"}) <= 1)
  /\ [][\A p \in Procs :
          /\ Closes(p) => conn[p] = "open" /\ pc[p] = "close"
          /\ conn[p] = "closed" => conn'[p] = "closed" \/ pc[p] = "unlock"
          /\ Sends(p) => conn[p] = "open" /\ conn'[p] = "open"]_vars

\* a Collect is about to release the mutex after a Lua script failed, its
\* connection closed
C20_Witness ==
  \E p \in Procs :
    /\ ConnectedCall(p)
    /\ err[p] = ScriptError
    /\ conn[p] = "closed"
    /\ cmds[p] # <<>>

\* every call of Collect has returned
AllDone == \A p \in Procs : pc[p] = "done"

\* C21: every call of Collect returns, whatever path it took: each call
\* starts waiting for the mutex, holds it while it is in its critical section
\* and has released it when it has returned, so all calls having returned
\* means that every waiting call entered its critical section and that no call
\* kept the mutex. A deadlock short of that would be a behaviour that stops
\* before all calls have returned.
C21_EveryCollectTerminates ==
  /\ [](\A p \in Procs : InSection(p) => mutex = p)
  /\ [](\A p \in Procs : pc[p] = "done" => mutex # p)
  /\ <>AllDone

\* a Collect that had to wait holds the mutex after an earlier one returned
C21_Witness ==
  \E p, q \in Procs :
    /\ p # q
    /\ pc[p] = "done"
    /\ InSection(q) /\ mutex = q

====
